---- MODULE Spec2Model ----
(***************************************************************************)
(* Verification model of indy-vdr:                                         *)
(*   - the catchup request handler (pool/handlers/catchup.rs)              *)
(*   - the did:indy resolver (resolver/resolver.rs)                        *)
(***************************************************************************)
EXTENDS Integers, Sequences, FiniteSets, TLC

(***************************************************************************)
(* Bounds of the model                                                     *)
(***************************************************************************)
\* largest ledger height (target_mt_size, and length of the caller's tree)
MaxSize == 3
\* largest number of send_to_any calls explored in one session
MaxSends == 3

\* transaction payloads
Txns == {1, 2}
\* node aliases of the pool
Nodes == {"n1", "n2"}
\* values of pool_config().ack_timeout
AckTimeouts == {5, 20}

(***************************************************************************)
(* LedgerResult<T>                                                         *)
(***************************************************************************)
Ok(v) == [ok |-> TRUE, val |-> v, kind |-> "none", msg |-> ""]
Err(k, m) == [ok |-> FALSE, val |-> <<>>, kind |-> k, msg |-> m]

(***************************************************************************)
(* Merkle tree (common::merkle_tree::MerkleTree): a tree is represented by *)
(* its leaf sequence; hashes are terms, so that two hashes are equal       *)
(* exactly when they were computed from the same data.                     *)
(***************************************************************************)
LeafHash(t) == <<"L", t>>
NodeHash(l, r) == <<"N", l, r>>
EmptyHash == <<"E">>
\* a proof entry that does not decode to a hash
BadHash == <<"X">>

IsPow2(x) == \E k \in 0..x : 2^k = x
\* the largest power of two strictly below n (n >= 2)
SplitPoint(n) == CHOOSE k \in 1..n : IsPow2(k) /\ k < n /\ n <= 2 * k

RECURSIVE MTH(_)
MTH(D) ==
    IF Len(D) = 0 THEN EmptyHash
    ELSE IF Len(D) = 1 THEN LeafHash(D[1])
    ELSE LET k == SplitPoint(Len(D))
         IN NodeHash(MTH(SubSeq(D, 1, k)), MTH(SubSeq(D, k + 1, Len(D))))

count(tree) == Len(tree)
root_hash(tree) == MTH(tree)

\* MerkleTree::append: one more leaf, or a CryptoError when hashing fails
append(tree, txn, hash_ok) ==
    IF hash_ok THEN Ok(Append(tree, txn)) ELSE Err("CryptoError", "hash")

\* the consistency proof between the first m leaves of D and all of D
RECURSIVE SubProof(_, _, _)
SubProof(m, D, b) ==
    IF m = Len(D) THEN (IF b THEN <<>> ELSE <<MTH(D)>>)
    ELSE LET k == SplitPoint(Len(D))
         IN IF m <= k
            THEN SubProof(m, SubSeq(D, 1, k), b) \o <<MTH(SubSeq(D, k + 1, Len(D)))>>
            ELSE SubProof(m - k, SubSeq(D, k + 1, Len(D)), FALSE) \o <<MTH(SubSeq(D, 1, k))>>
ConsProof(m, D) == SubProof(m, D, TRUE)

\* shift fn and sn right while the lowest bit of fn is set
RECURSIVE StripOdd(_, _)
StripOdd(fn, sn) ==
    IF fn % 2 = 1 THEN StripOdd(fn \div 2, sn \div 2) ELSE <<fn, sn>>
\* shift fn and sn right until the lowest bit of fn is set or fn is 0
RECURSIVE StripEven(_, _)
StripEven(fn, sn) ==
    IF fn % 2 = 0 /\ fn # 0 THEN StripEven(fn \div 2, sn \div 2) ELSE <<fn, sn>>

\* fold the proof entries path[i..] over the running roots fr (old) and sr (new)
RECURSIVE FoldProof(_, _, _, _, _, _)
FoldProof(path, i, fn, sn, fr, sr) ==
    IF i > Len(path) THEN [ok |-> TRUE, sn |-> sn, fr |-> fr, sr |-> sr]
    ELSE IF sn = 0 THEN [ok |-> FALSE, sn |-> sn, fr |-> fr, sr |-> sr]
    ELSE LET c == path[i]
         IN IF fn % 2 = 1 \/ fn = sn
            THEN LET s == IF fn % 2 = 0 THEN StripEven(fn, sn) ELSE <<fn, sn>>
                 IN FoldProof(path, i + 1, s[1] \div 2, s[2] \div 2,
                              NodeHash(c, fr), NodeHash(c, sr))
            ELSE FoldProof(path, i + 1, fn \div 2, sn \div 2, fr, NodeHash(sr, c))

\* MerkleTree::consistency_proof: does `proof` fold the root of `tree` into
\* new_root at size new_size?
consistency_proof(tree, new_root, new_size, proof) ==
    LET first == count(tree)
        first_hash == root_hash(tree)
    IN IF first > new_size THEN FALSE
       ELSE IF first = new_size THEN proof = <<>> /\ first_hash = new_root
       ELSE IF first = 0 THEN FALSE
       ELSE LET path == IF IsPow2(first) THEN <<first_hash>> \o proof ELSE proof
            IN IF path = <<>> THEN FALSE
               ELSE LET s == StripOdd(first - 1, new_size - 1)
                        f == FoldProof(path, 2, s[1], s[2], path[1], path[1])
                    IN f.ok /\ f.sn = 0 /\ f.fr = first_hash /\ f.sr = new_root

\* pool::check_cons_proofs: decode the proof entries, then verify; proof_ok is
\* false when the proof computation itself fails
check_cons_proofs(mt, cons_proofs, root, size, proof_ok) ==
    IF \E i \in 1..Len(cons_proofs) : cons_proofs[i] = BadHash
    THEN Err("InvalidStructure", "Can't decode node consistency proof")
    ELSE IF ~proof_ok THEN Err("CryptoError", "proof")
    ELSE IF ~consistency_proof(mt, root, size, cons_proofs)
    THEN Err("InvalidState", "Consistency proof verification failed")
    ELSE Ok(<<>>)


(***************************************************************************)
(* State                                                                   *)
(***************************************************************************)
VARIABLES
    \* catchup session (handle_catchup_request)
    ledger,          \* the ledger the pool agreed on (environment)
    merkle_tree,     \* the tree handed to the session
    target_mt_root,
    target_mt_size,
    ack_timeout,     \* request.pool_config().ack_timeout
    catchup_req,     \* result of build_catchup_req
    pc,              \* "build", "start", "awaiting", "done", "nocatchup"
    sends,           \* number of send_to_any calls
    send_args,       \* the <<count, timeout>> arguments send_to_any was given
    cleaned,         \* nodes clean_timeout was called for
    consumed,        \* number of events taken from request.next()
    timeouts,        \* number of Timeout events among them
    rejected,        \* number of CatchupRep events that were rejected
    event,           \* the event consumed last
    outcome,         \* what handle_catchup_request returned
    \* resolver (PoolRunnerResolver)
    r_pc,            \* "off", "idle", "sent", "done"
    r_op,            \* "resolve" or "dereference"
    r_did,           \* the DID (URL) handed in, as parsed
    clock,           \* wall clock, unix seconds
    r_request,       \* the PreparedRequest handed to the pool
    r_ret,           \* what the call returned
    r_panic,         \* the completion closure panicked on the runner thread
    cb_calls,        \* number of calls of the caller's completion callback
    cb_arg,          \* what the callback was called with
    r_now,           \* the clock when the runner-mode call was made
    \* resolver (PoolResolver), called with the same r_op and r_did
    d_pc,            \* "off", "idle", "sent", "legacy", "done"
    d_now,           \* the clock when the direct-mode call was made
    d_requests,      \* the PreparedRequests handed to the pool, in order
    d_ret,           \* what the call returned
    d_panic,         \* the call panicked
    \* the pool
    pool_primary,    \* its answer to the primary request of r_did
    pool_attrib,     \* its answer to the GET_ATTRIB request for r_did
    \* request mapping of a SCHEMA DID URL
    s_pc,            \* "off", "url", "parsed", "built"
    s_name,          \* the schema name the DID URL was written for
    s_segment,       \* the name segment of the path of the DID URL
    s_schema,        \* the LedgerObject::Schema parsed from the path
    s_request        \* the GET_SCHEMA request built

cvars == <<ledger, merkle_tree, target_mt_root, target_mt_size, ack_timeout,
           catchup_req, pc, sends, send_args, cleaned, consumed, timeouts, rejected,
           event, outcome>>

rvars == <<r_pc, r_op, r_did, clock, r_request, r_ret, r_panic, cb_calls, cb_arg,
           r_now>>

dvars == <<d_pc, d_now, d_requests, d_ret, d_panic>>

pvars == <<pool_primary, pool_attrib>>

svars == <<s_pc, s_name, s_segment, s_schema, s_request>>

vars == <<cvars, rvars, dvars, pvars, svars>>

(***************************************************************************)
(* Catchup: values                                                         *)
(***************************************************************************)
NoOutcome == [tag |-> "none", txns |-> <<>>, kind |-> "none", msg |-> ""]
\* Ok((RequestResult::Reply(txns), timing))
ReplyOutcome(txns) == [tag |-> "Reply", txns |-> txns, kind |-> "none", msg |-> ""]
\* Ok((RequestResult::Failed(err_msg(kind, msg)), timing))
FailedOutcome(k, m) == [tag |-> "Failed", txns |-> <<>>, kind |-> k, msg |-> m]
\* Err(e): an error propagated by `?`
ErrOutcome(e) == [tag |-> "Err", txns |-> <<>>, kind |-> e.kind, msg |-> e.msg]

NoEvent ==
    [type |-> "none", node |-> "none", msg |-> "none", txns |-> <<>>,
     consProof |-> <<>>, fault |-> "none"]
\* RequestEvent::Received(node, _, Message::CatchupRep(cr))
CatchupRepEvent(node, txns, proof, fault) ==
    [type |-> "Received", node |-> node, msg |-> "CatchupRep", txns |-> txns,
     consProof |-> proof, fault |-> fault]
\* RequestEvent::Received(node, _, m) for any other message m
OtherEvent(node, m) ==
    [type |-> "Received", node |-> node, msg |-> m, txns |-> <<>>,
     consProof |-> <<>>, fault |-> "none"]
\* RequestEvent::Timeout(node)
TimeoutEvent(node) ==
    [type |-> "Timeout", node |-> node, msg |-> "none", txns |-> <<>>,
     consProof |-> <<>>, fault |-> "none"]
\* request.next() returned None
EndEvent ==
    [type |-> "End", node |-> "none", msg |-> "none", txns |-> <<>>,
     consProof |-> <<>>, fault |-> "none"]

\* messages other than CatchupRep that a node may answer with
OtherMessages == {"ReqNACK", "Reply", "LedgerStatus"}

\* what may go wrong inside one reply: its transactions do not load, hashing
\* a leaf fails, computing the proof fails
Faults == {"none", "load", "hash", "proof"}

SeqsUpTo(S, n) == UNION {[1..k -> S] : k \in 0..n}

\* the ledger of height h the pool agreed on
LedgerOf(h) == [i \in 1..h |-> IF i % 2 = 1 THEN 1 ELSE 2]

\* the transactions the session still lacks
Wanted ==
    IF count(merkle_tree) < target_mt_size
    THEN SubSeq(ledger, count(merkle_tree) + 1, target_mt_size)
    ELSE <<>>

\* the other payload
Tamper(t) == IF t = 1 THEN 2 ELSE 1

\* the transaction lists a node may answer with: the wanted ones or only the
\* first of them, the wanted ones with the last one altered, one too many
TxnChoices ==
    {SubSeq(Wanted, 1, k) : k \in 0..Len(Wanted)}
    \cup {[Wanted EXCEPT ![k] = Tamper(Wanted[k])] : k \in {Len(Wanted)} \ {0}}
    \cup {Wanted \o <<1>>}

\* the proofs a node may attach to a reply that carries txns: the genuine one
\* for the height the reply reaches, an empty one, tampered ones, an
\* undecodable one
ProofChoices(txns) ==
    LET m == count(merkle_tree) + Len(txns)
    IN {<<>>, <<LeafHash(1)>>, <<BadHash>>}
       \cup (IF m >= 1 /\ m <= target_mt_size
             THEN {ConsProof(m, SubSeq(ledger, 1, target_mt_size))}
             ELSE {})
       \cup (IF m >= 1 /\ m < target_mt_size
             THEN {ConsProof(m, SubSeq(ledger, 1, target_mt_size)) \o <<LeafHash(2)>>}
             ELSE {})

\* the replies of the model, <<txns, consProof, fault>>: every transaction list
\* with every proof, and each fault on the reply an honest node sends
Replies ==
    {<<t, p, "none">> : t \in TxnChoices, p \in ProofChoices(Wanted)}
    \cup UNION {{<<t, p, "none">> : p \in ProofChoices(t)} : t \in TxnChoices}
    \cup {<<Wanted, ConsProof(target_mt_size, SubSeq(ledger, 1, target_mt_size)), f>> :
            f \in Faults}

(***************************************************************************)
(* Catchup: functions                                                      *)
(***************************************************************************)
\* CatchupRep::load_txns
load_txns(cr) ==
    IF cr.fault = "load"
    THEN Err("InvalidStructure", "Invalid transaction")
    ELSE Ok(cr.txns)

\* for txn in &txns { merkle.append(txn.clone())?; }
RECURSIVE AppendAll(_, _, _, _)
AppendAll(merkle, txns, i, hash_ok) ==
    IF i > Len(txns) THEN Ok(merkle)
    ELSE LET a == append(merkle, txns[i], hash_ok)
         IN IF a.ok THEN AppendAll(a.val, txns, i + 1, hash_ok) ELSE a

\* process_catchup_reply appending to the source tree itself instead of a clone
process_catchup_reply_noclone(source_tree, root, size, txns, cons_proof, fault) ==
    LET appended == AppendAll(source_tree, txns, 1, fault # "hash")
    IN IF ~appended.ok THEN <<appended, source_tree>>
       ELSE LET c == check_cons_proofs(appended.val, cons_proof, root, size,
                                       fault # "proof")
            IN IF ~c.ok THEN <<c, appended.val>> ELSE <<Ok(txns), appended.val>>

\* process_catchup_reply returning the leaves of the extended tree instead of
\* the transactions of the reply
process_catchup_reply_returns_tree(source_tree, root, size, txns, cons_proof, fault) ==
    LET appended == AppendAll(source_tree, txns, 1, fault # "hash")
    IN IF ~appended.ok THEN <<appended, source_tree>>
       ELSE LET c == check_cons_proofs(appended.val, cons_proof, root, size,
                                       fault # "proof")
            IN IF ~c.ok THEN <<c, source_tree>> ELSE <<Ok(appended.val), source_tree>>

\* process_catchup_reply; the second component is the source tree as the call
\* leaves it (the appends go to a clone)
process_catchup_reply(source_tree, root, size, txns, cons_proof, fault) ==
    LET merkle == source_tree
        appended == AppendAll(merkle, txns, 1, fault # "hash")
    IN IF ~appended.ok THEN <<appended, source_tree>>
       ELSE LET c == check_cons_proofs(appended.val, cons_proof, root, size,
                                       fault # "proof")
            IN IF ~c.ok THEN <<c, source_tree>> ELSE <<Ok(txns), source_tree>>

\* build_catchup_req comparing with > instead of >=
build_catchup_req_gt(merkle, size) ==
    IF count(merkle) > size
    THEN Err("InvalidState", "No transactions to catch up")
    ELSE Ok([ledgerId |-> 0,
             seqNoStart |-> count(merkle) + 1,
             seqNoEnd |-> size,
             catchupTill |-> size])

\* build_catchup_req
build_catchup_req(merkle, size) ==
    IF count(merkle) >= size
    THEN Err("InvalidState", "No transactions to catch up")
    ELSE Ok([ledgerId |-> 0,
             seqNoStart |-> count(merkle) + 1,
             seqNoEnd |-> size,
             catchupTill |-> size])

\* PoolRequest::send_to_any / clean_timeout: the pool reports success or not
PoolCall(ok) == IF ok THEN Ok(<<>>) ELSE Err("PoolRequestFailed", "pool")

(***************************************************************************)
(* Resolver: values                                                        *)
(***************************************************************************)
None == <<>>
Some(x) == <<x>>

\* a query parameter of a DID URL: absent, present and RFC 3339 / integer
\* ("ok", with its value t), or present and unparsable ("bad")
Absent == [st |-> "absent", t |-> 0]
Bad == [st |-> "bad", t |-> 0]
Parsed(t) == [st |-> "ok", t |-> t]

\* instants that appear in query parameters (unix seconds)
Instants == {-5, 7}
DateParams == {Absent, Bad} \cup {Parsed(t) : t \in Instants}
IdParams == {Absent, Bad, Parsed(3)}

\* what LedgerObject::from_str makes of the path of a DID URL
Paths == {"none", "invalid", "Schema", "ClaimDef", "RevRegDef", "RevRegEntry",
          "RevRegDelta"}

\* DidUrl::from_str: the inputs of the model, as parsed
DidUrls ==
    [parse_ok : BOOLEAN, namespace : {"idunion"}, id : {"Dk1f"}, path : Paths,
     versionId : IdParams, versionTime : DateParams, from : DateParams,
     to : DateParams]

\* PreparedRequest: txn_type and the fields of the operation
Request(txn_type, id, seq_no, timestamp, from, to) ==
    [txn_type |-> txn_type, id |-> id, seq_no |-> seq_no, timestamp |-> timestamp,
     from |-> from, to |-> to]
NoRequest == Request("none", "none", None, None, None, None)

\* errors the pool reports for a request
PoolErrors == {"PoolTimeout", "PoolNoConsensus"}

\* result.data of a ledger reply: the reply is no JSON at all, data is null,
\* data is a string holding a NYM with or without diddoc_content, a string
\* holding something else, or a JSON value that is no string
LedgerData == {"unparsable", "null", "nym_inline", "nym_legacy", "garbage", "object"}

\* what the pool hands to the completion closure
PoolResults ==
    {[tag |-> "Err", err |-> e, data |-> "null"] : e \in PoolErrors}
    \cup {[tag |-> "Failed", err |-> e, data |-> "null"] : e \in PoolErrors}
    \cup {[tag |-> "Reply", err |-> "none", data |-> d] : d \in LedgerData}

\* i64 as u64: the value is carry * 2^64 + t
AsU64(t) == IF t >= 0 THEN <<0, t>> ELSE <<1, t>>

(***************************************************************************)
(* Resolver: functions                                                     *)
(***************************************************************************)
\* OffsetDateTime::parse(d, &Rfc3339).ok().map(unix_timestamp), v.parse().ok()
ParseOpt(q) == IF q.st = "ok" THEN Some(q.t) ELSE None

\* parse_or_now defaulting to a reading one second old
parse_or_now_stale(datetime, now) ==
    IF datetime.st = "absent" THEN Ok(now - 1)
    ELSE IF datetime.st = "ok" THEN Ok(datetime.t)
    ELSE Err("Resolver", "Could not parse datetime")

\* parse_or_now answering the clock whatever datetime was supplied
parse_or_now_always_now(datetime, now) ==
    IF datetime.st = "bad" THEN Err("Resolver", "Could not parse datetime")
    ELSE Ok(now)

\* parse_or_now
parse_or_now(datetime, now) ==
    IF datetime.st = "absent" THEN Ok(now)
    ELSE IF datetime.st = "ok" THEN Ok(datetime.t)
    ELSE Err("Resolver", "Could not parse datetime")

\* the from/to branch shared by RevRegEntry and RevRegDelta
DeltaRequest(did, now) ==
    LET from == IF did.from.st # "absent" THEN ParseOpt(did.from) ELSE None
        to == parse_or_now(did.to, now)
    IN IF ~to.ok THEN to
       ELSE Ok(Request("GET_REVOC_REG_DELTA", did.id, None, None, from, Some(to.val)))

\* build_request taking the delta branch of a RevRegEntry path on `from` alone
build_request_from_only(did, now) ==
    IF did.path # "none"
    THEN IF did.path = "invalid" THEN Err("Resolver", "Invalid DID URL path")
         ELSE IF did.path = "Schema"
         THEN Ok(Request("GET_SCHEMA", did.id, None, None, None, None))
         ELSE IF did.path = "ClaimDef"
         THEN Ok(Request("GET_CRED_DEF", did.id, None, None, None, None))
         ELSE IF did.path = "RevRegDef"
         THEN Ok(Request("GET_REVOC_REG_DEF", did.id, None, None, None, None))
         ELSE IF did.path = "RevRegEntry"
         THEN IF did.from.st # "absent"
              THEN DeltaRequest(did, now)
              ELSE LET timestamp == parse_or_now(did.versionTime, now)
                   IN IF ~timestamp.ok THEN timestamp
                      ELSE Ok(Request("GET_REVOC_REG", did.id, None,
                                      Some(timestamp.val), None, None))
         ELSE DeltaRequest(did, now)
    ELSE LET seq_no == ParseOpt(did.versionId)
             ts == ParseOpt(did.versionTime)
             timestamp == IF ts = None THEN None ELSE Some(AsU64(ts[1]))
         IN Ok(Request("GET_NYM", did.id, seq_no, timestamp, None, None))

\* build_request
build_request(did, now) ==
    IF did.path # "none"
    THEN IF did.path = "invalid" THEN Err("Resolver", "Invalid DID URL path")
         ELSE IF did.path = "Schema"
         THEN Ok(Request("GET_SCHEMA", did.id, None, None, None, None))
         ELSE IF did.path = "ClaimDef"
         THEN Ok(Request("GET_CRED_DEF", did.id, None, None, None, None))
         ELSE IF did.path = "RevRegDef"
         THEN Ok(Request("GET_REVOC_REG_DEF", did.id, None, None, None, None))
         ELSE IF did.path = "RevRegEntry"
         THEN IF did.from.st # "absent" \/ did.to.st # "absent"
              THEN DeltaRequest(did, now)
              ELSE LET timestamp == parse_or_now(did.versionTime, now)
                   IN IF ~timestamp.ok THEN timestamp
                      ELSE Ok(Request("GET_REVOC_REG", did.id, None,
                                      Some(timestamp.val), None, None))
         ELSE DeltaRequest(did, now)
    ELSE LET seq_no == ParseOpt(did.versionId)
             ts == ParseOpt(did.versionTime)
             timestamp == IF ts = None THEN None ELSE Some(AsU64(ts[1]))
         IN Ok(Request("GET_NYM", did.id, seq_no, timestamp, None, None))

\* parse_ledger_data
parse_ledger_data(ledger_data) ==
    IF ledger_data = "unparsable"
    THEN Err("Resolver", "Could not parse ledger response")
    ELSE IF ledger_data = "null"
    THEN Err("Resolver", "Empty data in ledger response")
    ELSE Ok(ledger_data)

\* serde_json::from_str::<GetNymResultV1>(data.as_str().unwrap())
IsNym(data) == data \in {"nym_inline", "nym_legacy"}
HasDiddocContent(data) == data = "nym_inline"

\* DidDocument::new(namespace, dest, verkey, endpoint, None)
DidDocument(namespace, endpoint) ==
    [namespace |-> namespace, id |-> "dest", verkey |-> "verkey", endpoint |-> endpoint]
\* DidDocument::to_value
to_value(doc) ==
    [id |-> <<"did:indy", doc.namespace, doc.id>>,
     verificationMethod |-> <<doc.verkey>>,
     service |-> doc.endpoint]

ResultDidDocument(doc) == [variant |-> "DidDocument", doc |-> doc, content |-> "none"]
ResultContent(data) ==
    [variant |-> "Content", doc |-> DidDocument("none", None), content |-> data]
ContentMetadata(reply, object_type) ==
    [node_response |-> reply, object_type |-> object_type]

\* the object_type match of PoolRunnerResolver::_resolve
RunnerObjectType(txn_type) ==
    IF txn_type = "GET_CRED_DEF" THEN "CRED_DEF"
    ELSE IF txn_type = "GET_SCHEMA" THEN "SCHEMA"
    ELSE IF txn_type = "GET_REVOC_REG_DEF" THEN "REVOC_REG_DEF"
    ELSE IF txn_type = "GET_REVOC_REG_DELTA" THEN "REVOC_REG_DELTA"
    ELSE "UNKOWN"

\* what a piece of code does: panic, return a result (a closure returns ()
\* without calling on), or call on with arg
Panics == [act |-> "panic", arg |-> Err("none", "")]
Returns(result) == [act |-> "return", arg |-> result]
Calls(arg) == [act |-> "call", arg |-> arg]

\* the closure PoolRunnerResolver::_resolve hands to send_request
RunnerClosure(did, txn_type, result) ==
    IF result.tag = "Err" THEN Calls(Err(result.err, "pool"))
    ELSE IF result.tag = "Failed" THEN Calls(Err(result.err, "pool"))
    ELSE LET data == parse_ledger_data(result.data)
         IN IF ~data.ok THEN Panics
            ELSE IF txn_type = "GET_NYM"
            THEN IF ~IsNym(data.val) THEN Panics
                 ELSE IF ~HasDiddocContent(data.val) THEN Returns(Ok(<<>>))
                 ELSE Calls(Ok(<<ResultDidDocument(DidDocument(did.namespace, None)),
                                 ContentMetadata(result.data, "NYM")>>))
            ELSE Calls(Ok(<<ResultContent(data.val),
                            ContentMetadata(result.data, RunnerObjectType(txn_type))>>))

ResolutionResult(diddoc, metadata) ==
    [envelope |-> "ResolutionResult", body |-> diddoc, metadata |-> Some(metadata)]
DereferencingResult(content, metadata) ==
    [envelope |-> "DereferencingResult", body |-> content, metadata |-> Some(metadata)]

\* the closures PoolRunnerResolver::resolve and ::dereference wrap the
\* caller's callback in
RunnerWrapper(op, result) ==
    IF ~result.ok THEN Panics
    ELSE LET data == result.val[1]
             metadata == result.val[2]
         IN IF op = "resolve"
            THEN Calls(Ok(ResolutionResult(
                     IF data.variant = "DidDocument" THEN Some(to_value(data.doc)) ELSE None,
                     metadata)))
            ELSE Calls(Ok(DereferencingResult(
                     IF data.variant = "Content" THEN Some(data.content) ELSE None,
                     metadata)))

\* result.data of a reply to GET_ATTRIB: as LedgerData, with a string holding
\* an Endpoint in place of the NYMs
EndpointData == {"unparsable", "null", "endpoint", "garbage", "object"}

\* what the pool answers to the GET_ATTRIB request
AttribResults ==
    {[tag |-> "Err", err |-> e, data |-> "null"] : e \in PoolErrors}
    \cup {[tag |-> "Failed", err |-> e, data |-> "null"] : e \in PoolErrors}
    \cup {[tag |-> "Reply", err |-> "none", data |-> d] : d \in EndpointData}

\* the pool has not answered
NoResult == [tag |-> "none", err |-> "none", data |-> "null"]

\* data.as_str()
IsString(data) == data # "object"

\* builder.build_get_attrib_request(None, did, Some(LEGACY_INDY_SERVICE), None, None)
AttribRequest(id) == Request("GET_ATTRIB", id, None, None, None, None)

\* PoolResolver::handle_request
handle_request(result) ==
    IF result.tag = "Reply" THEN Ok(result.data) ELSE Err(result.err, "pool")

\* PoolResolver::fetch_legacy_endpoint, from the pool's answer on
fetch_legacy_endpoint(result) ==
    LET ledger_data == handle_request(result)
    IN IF ~ledger_data.ok THEN Returns(ledger_data)
       ELSE LET endpoint_data == parse_ledger_data(ledger_data.val)
            IN IF ~endpoint_data.ok THEN Returns(endpoint_data)
               ELSE IF ~IsString(endpoint_data.val) THEN Panics
               ELSE IF endpoint_data.val # "endpoint"
               THEN Returns(Err("Resolver", "Could not parse endpoint data"))
               ELSE Returns(Ok("endpoint"))

\* Result<T, E>::ok
ok(result) == IF result.ok THEN Some(result.val) ELSE None

\* the object_type match of PoolResolver::_resolve
DirectObjectType(txn_type) ==
    IF txn_type = "GET_NYM" THEN "NYM"
    ELSE IF txn_type = "GET_CRED_DEF" THEN "CRED_DEF"
    ELSE IF txn_type = "GET_SCHEMA" THEN "SCHEMA"
    ELSE IF txn_type = "GET_REVOC_REG_DEF" THEN "REVOC_REG_DEF"
    ELSE IF txn_type = "GET_REVOC_REG_DELTA" THEN "REVOC_REG_DELTA"
    ELSE "UNKOWN"

\* PoolResolver::_resolve from the match on txn_type on: the NYM arm once the
\* endpoint is known, and the other arms
DirectResult(did, txn_type, ledger_data, endpoint) ==
    Ok(<<IF txn_type = "GET_NYM"
         THEN ResultDidDocument(DidDocument(did.namespace, endpoint))
         ELSE ResultContent(ledger_data),
         ContentMetadata(ledger_data, DirectObjectType(txn_type))>>)

\* PoolResolver::resolve and ::dereference, from the return of _resolve on
DirectWrapper(op, result) ==
    IF ~result.ok THEN result
    ELSE LET data == result.val[1]
             metadata == result.val[2]
         IN IF op = "resolve"
            THEN Ok(ResolutionResult(
                     IF data.variant = "DidDocument" THEN Some(to_value(data.doc)) ELSE None,
                     metadata))
            ELSE Ok(DereferencingResult(
                     IF data.variant = "Content" THEN Some(data.content) ELSE None,
                     metadata))

\* what _resolve does once the pool has answered the primary request: it
\* returns, panics, or goes on to fetch the legacy endpoint
Fetches == [act |-> "fetch", arg |-> Err("none", "")]

\* _resolve fetching the legacy endpoint for every NYM, with or without
\* diddoc_content
DirectAfterPrimaryAlwaysFetches(did, txn_type, result) ==
    LET ledger_data == handle_request(result)
    IN IF ~ledger_data.ok THEN Returns(ledger_data)
       ELSE LET data == parse_ledger_data(ledger_data.val)
            IN IF ~data.ok THEN Returns(data)
               ELSE IF txn_type # "GET_NYM"
               THEN Returns(DirectResult(did, txn_type, ledger_data.val, None))
               ELSE IF ~IsString(data.val) THEN Panics
               ELSE IF ~IsNym(data.val)
               THEN Returns(Err("Resolver", "Could not parse NYM data"))
               ELSE Fetches

\* PoolResolver::_resolve from the pool's answer to the primary request on
DirectAfterPrimary(did, txn_type, result) ==
    LET ledger_data == handle_request(result)
    IN IF ~ledger_data.ok THEN Returns(ledger_data)
       ELSE LET data == parse_ledger_data(ledger_data.val)
            IN IF ~data.ok THEN Returns(data)
               ELSE IF txn_type # "GET_NYM"
               THEN Returns(DirectResult(did, txn_type, ledger_data.val, None))
               ELSE IF ~IsString(data.val) THEN Panics
               ELSE IF ~IsNym(data.val)
               THEN Returns(Err("Resolver", "Could not parse NYM data"))
               ELSE IF ~HasDiddocContent(data.val) THEN Fetches
               ELSE Returns(DirectResult(did, txn_type, ledger_data.val, None))

(***************************************************************************)
(* Resolver: the name segment of a SCHEMA path                             *)
(***************************************************************************)
\* longest schema name of the model
MaxNameLen == 3

\* the characters of schema names: unreserved ones, and a space, a percent
\* sign and a slash, which a path segment cannot hold as they are
Unreserved == {"a", "0", "2"}
Chars == Unreserved \cup {" ", "%", "/"}
Names == UNION {[1..n -> Chars] : n \in 1..MaxNameLen}

\* urlencoding::encode, one character
EncodeChar(c) ==
    IF c \in Unreserved THEN <<c>>
    ELSE IF c = " " THEN <<"%", "2", "0">>
    ELSE IF c = "%" THEN <<"%", "2", "5">>
    ELSE <<"%", "2", "F">>

\* urlencoding::encode
RECURSIVE encode(_)
encode(name) ==
    IF name = <<>> THEN <<>>
    ELSE EncodeChar(Head(name)) \o encode(Tail(name))

\* the hexadecimal digits of the model and the byte two of them stand for
HexDigits == {"0", "2", "5", "F"}
DecodeByte(h, l) ==
    IF <<h, l>> = <<"2", "0">> THEN " "
    ELSE IF <<h, l>> = <<"2", "5">> THEN "%"
    ELSE IF <<h, l>> = <<"2", "F">> THEN "/"
    ELSE "other"

\* percent-decoding of a path segment: %XX is one byte, anything else stands
\* for itself
RECURSIVE percent_decode(_)
percent_decode(segment) ==
    IF segment = <<>> THEN <<>>
    ELSE IF /\ Head(segment) = "%"
            /\ Len(segment) >= 3
            /\ segment[2] \in HexDigits
            /\ segment[3] \in HexDigits
    THEN <<DecodeByte(segment[2], segment[3])>>
         \o percent_decode(SubSeq(segment, 4, Len(segment)))
    ELSE <<Head(segment)>> \o percent_decode(Tail(segment))

\* LedgerObject::from_str on /anoncreds/v0/SCHEMA/<segment>/<version>
LedgerObjectSchema(segment, version) ==
    [name |-> percent_decode(segment), version |-> version]
NoSchema == [name |-> <<>>, version |-> "none"]

\* the SCHEMA arm of build_request handing the name over encoded again
SchemaRequestEncoded(id, schema) ==
    [txn_type |-> "GET_SCHEMA", dest |-> id,
     data |-> [name |-> encode(schema.name), version |-> schema.version]]

\* the SCHEMA arm of build_request: build_get_schema_request(None,
\* &SchemaId::new(&did.id, &schema.name, &schema.version)), with the operation
\* of the request it yields
SchemaRequest(id, schema) ==
    [txn_type |-> "GET_SCHEMA", dest |-> id,
     data |-> [name |-> schema.name, version |-> schema.version]]
NoSchemaRequest ==
    [txn_type |-> "none", dest |-> "none", data |-> [name |-> <<>>, version |-> "none"]]

\* no SCHEMA DID URL is being mapped
SOff ==
    /\ s_pc = "off"
    /\ s_name = <<>>
    /\ s_segment = <<>>
    /\ s_schema = NoSchema
    /\ s_request = NoSchemaRequest

\* the resolver is not running
ROff ==
    /\ r_pc = "off"
    /\ r_op = "none"
    /\ r_did = [parse_ok |-> FALSE, namespace |-> "none", id |-> "none",
                path |-> "none", versionId |-> Absent, versionTime |-> Absent,
                from |-> Absent, to |-> Absent]
    /\ clock = 0
    /\ r_request = NoRequest
    /\ r_ret = Err("unset", "")
    /\ r_panic = FALSE
    /\ cb_calls = 0
    /\ cb_arg = Err("unset", "")
    /\ r_now = 0
    /\ d_pc = "off"
    /\ d_now = 0
    /\ d_requests = <<>>
    /\ d_ret = Err("unset", "")
    /\ d_panic = FALSE
    /\ pool_primary = NoResult
    /\ pool_attrib = NoResult

\* no catchup session
COff ==
    /\ ledger = <<>>
    /\ merkle_tree = <<>>
    /\ target_mt_root = EmptyHash
    /\ target_mt_size = 0
    /\ ack_timeout = 0
    /\ catchup_req = Err("unset", "")
    /\ pc = "off"
    /\ sends = 0
    /\ send_args = {}
    /\ cleaned = {}
    /\ consumed = 0
    /\ timeouts = 0
    /\ rejected = 0
    /\ event = NoEvent
    /\ outcome = NoOutcome

(***************************************************************************)
(* Catchup: actions                                                        *)
(***************************************************************************)
CInit ==
    /\ target_mt_size \in 1..MaxSize
    /\ ledger = LedgerOf(MaxSize)
    /\ target_mt_root = root_hash(SubSeq(ledger, 1, target_mt_size))
    /\ \E n \in 0..MaxSize : merkle_tree = SubSeq(ledger, 1, n)
    /\ ack_timeout \in AckTimeouts
    /\ catchup_req = Err("unset", "")
    /\ pc = "build"
    /\ sends = 0
    /\ send_args = {}
    /\ cleaned = {}
    /\ consumed = 0
    /\ timeouts = 0
    /\ rejected = 0
    /\ event = NoEvent
    /\ outcome = NoOutcome
    /\ ROff
    /\ SOff

\* the caller builds the request before it opens the session
BuildCatchupReq ==
    /\ pc = "build"
    /\ catchup_req' = build_catchup_req(merkle_tree, target_mt_size)
    /\ pc' = IF catchup_req'.ok THEN "start" ELSE "nocatchup"
    /\ UNCHANGED <<ledger, merkle_tree, target_mt_root, target_mt_size, ack_timeout,
                   sends, send_args, cleaned, consumed, timeouts, rejected, event,
                   outcome>>
    /\ UNCHANGED <<rvars, dvars, pvars, svars>>

\* request.send_to_any(1, ack_timeout)? before the loop
StartSession ==
    /\ pc = "start"
    /\ \E send_ok \in BOOLEAN :
        LET s == PoolCall(send_ok)
        IN /\ sends' = sends + 1
           /\ send_args' = send_args \cup {<<1, ack_timeout>>}
           /\ IF s.ok
              THEN pc' = "awaiting" /\ outcome' = outcome
              ELSE pc' = "done" /\ outcome' = ErrOutcome(s)
    /\ UNCHANGED <<ledger, merkle_tree, target_mt_root, target_mt_size, ack_timeout,
                   catchup_req, cleaned, consumed, timeouts, rejected, event>>
    /\ UNCHANGED <<rvars, dvars, pvars, svars>>

\* Some(RequestEvent::Received(node_alias, _, Message::CatchupRep(cr)))
ReceivedCatchupRep ==
    /\ pc = "awaiting"
    /\ \E node \in Nodes, rep \in Replies :
        LET cr == CatchupRepEvent(node, rep[1], rep[2], rep[3])
            loaded == load_txns(cr)
            r == process_catchup_reply(merkle_tree, target_mt_root, target_mt_size,
                                       loaded.val, cr.consProof, cr.fault)
        IN /\ event' = cr
           /\ consumed' = consumed + 1
           /\ IF ~loaded.ok
              THEN /\ outcome' = ErrOutcome(loaded)
                   /\ pc' = "done"
                   /\ UNCHANGED <<merkle_tree, sends, send_args, cleaned, rejected>>
              ELSE /\ merkle_tree' = r[2]
                   /\ IF r[1].ok
                      THEN /\ outcome' = ReplyOutcome(r[1].val)
                           /\ pc' = "done"
                           /\ UNCHANGED <<sends, send_args, cleaned, rejected>>
                      ELSE \E clean_ok \in BOOLEAN :
                           LET c == PoolCall(clean_ok)
                           IN /\ sends < MaxSends
                              /\ rejected' = rejected + 1
                              /\ cleaned' = cleaned \cup {node}
                              /\ IF ~c.ok
                                 THEN /\ outcome' = ErrOutcome(c)
                                      /\ pc' = "done"
                                      /\ UNCHANGED <<sends, send_args>>
                                 ELSE \E send_ok \in BOOLEAN :
                                      LET s == PoolCall(send_ok)
                                      IN /\ sends' = sends + 1
                                         /\ send_args' = send_args \cup {<<1, ack_timeout>>}
                                         /\ IF s.ok
                                            THEN pc' = "awaiting" /\ outcome' = outcome
                                            ELSE pc' = "done" /\ outcome' = ErrOutcome(s)
    /\ UNCHANGED <<ledger, target_mt_root, target_mt_size, ack_timeout, catchup_req,
                   timeouts>>
    /\ UNCHANGED <<rvars, dvars, pvars, svars>>

\* an unexpected message handled as a failure of that peer: retry
ReceivedOtherRetries ==
    /\ pc = "awaiting"
    /\ sends < MaxSends
    /\ \E node \in Nodes, m \in OtherMessages :
        /\ event' = OtherEvent(node, m)
        /\ consumed' = consumed + 1
        /\ sends' = sends + 1
        /\ send_args' = send_args \cup {<<1, ack_timeout>>}
        /\ outcome' = outcome
        /\ pc' = "awaiting"
    /\ UNCHANGED <<ledger, merkle_tree, target_mt_root, target_mt_size, ack_timeout,
                   catchup_req, cleaned, timeouts, rejected>>
    /\ UNCHANGED <<rvars, dvars, pvars, svars>>

\* Some(RequestEvent::Received(_, _, parsed)) with parsed not a CatchupRep
ReceivedOther ==
    /\ pc = "awaiting"
    /\ \E node \in Nodes, m \in OtherMessages :
        /\ event' = OtherEvent(node, m)
        /\ consumed' = consumed + 1
        /\ outcome' = FailedOutcome("InvalidState", "Unexpected response")
        /\ pc' = "done"
    /\ UNCHANGED <<ledger, merkle_tree, target_mt_root, target_mt_size, ack_timeout,
                   catchup_req, sends, send_args, cleaned, timeouts, rejected>>
    /\ UNCHANGED <<rvars, dvars, pvars, svars>>

\* a timeout handled as the failure of the session
TimeoutEndsSession ==
    /\ pc = "awaiting"
    /\ \E node \in Nodes :
        /\ event' = TimeoutEvent(node)
        /\ consumed' = consumed + 1
        /\ timeouts' = timeouts + 1
        /\ outcome' = FailedOutcome("PoolTimeout", "Request timeout")
        /\ pc' = "done"
    /\ UNCHANGED <<ledger, merkle_tree, target_mt_root, target_mt_size, ack_timeout,
                   catchup_req, sends, send_args, cleaned, rejected>>
    /\ UNCHANGED <<rvars, dvars, pvars, svars>>

\* a timeout after which nothing is sent again
TimeoutNoResend ==
    /\ pc = "awaiting"
    /\ timeouts < MaxSends
    /\ \E node \in Nodes :
        /\ event' = TimeoutEvent(node)
        /\ consumed' = consumed + 1
        /\ timeouts' = timeouts + 1
        /\ outcome' = outcome
        /\ pc' = "awaiting"
    /\ UNCHANGED <<ledger, merkle_tree, target_mt_root, target_mt_size, ack_timeout,
                   catchup_req, sends, send_args, cleaned, rejected>>
    /\ UNCHANGED <<rvars, dvars, pvars, svars>>

\* Some(RequestEvent::Timeout(_node_alias))
Timeout ==
    /\ pc = "awaiting"
    /\ sends < MaxSends
    /\ \E node \in Nodes, send_ok \in BOOLEAN :
        LET s == PoolCall(send_ok)
        IN /\ event' = TimeoutEvent(node)
           /\ consumed' = consumed + 1
           /\ timeouts' = timeouts + 1
           /\ sends' = sends + 1
           /\ send_args' = send_args \cup {<<1, ack_timeout>>}
           /\ IF s.ok
              THEN pc' = "awaiting" /\ outcome' = outcome
              ELSE pc' = "done" /\ outcome' = ErrOutcome(s)
    /\ UNCHANGED <<ledger, merkle_tree, target_mt_root, target_mt_size, ack_timeout,
                   catchup_req, cleaned, rejected>>
    /\ UNCHANGED <<rvars, dvars, pvars, svars>>

\* the end of the stream reported as an unexpected response
StreamEndUnexpected ==
    /\ pc = "awaiting"
    /\ event' = EndEvent
    /\ consumed' = consumed + 1
    /\ outcome' = FailedOutcome("InvalidState", "Unexpected response")
    /\ pc' = "done"
    /\ UNCHANGED <<ledger, merkle_tree, target_mt_root, target_mt_size, ack_timeout,
                   catchup_req, sends, send_args, cleaned, timeouts, rejected>>
    /\ UNCHANGED <<rvars, dvars, pvars, svars>>

\* request.next() yields None
StreamEnd ==
    /\ pc = "awaiting"
    /\ event' = EndEvent
    /\ consumed' = consumed + 1
    /\ outcome' = FailedOutcome("PoolTimeout", "Request timeout")
    /\ pc' = "done"
    /\ UNCHANGED <<ledger, merkle_tree, target_mt_root, target_mt_size, ack_timeout,
                   catchup_req, sends, send_args, cleaned, timeouts, rejected>>
    /\ UNCHANGED <<rvars, dvars, pvars, svars>>

Next ==
    \/ BuildCatchupReq
    \/ StartSession
    \/ ReceivedCatchupRep
    \/ ReceivedOther
    \/ Timeout
    \/ StreamEnd

Init == CInit

Spec == Init /\ [][Next]_vars

\* the session of a caller that builds the request and opens the session, on
\* an event stream that comes to its end unless the session ends before
FairSpec ==
    /\ Init
    /\ [][Next]_vars
    /\ WF_vars(BuildCatchupReq)
    /\ WF_vars(StartSession)
    /\ WF_vars(StreamEnd)

(***************************************************************************)
(* Resolver: actions                                                       *)
(***************************************************************************)
\* largest number of clock ticks before the call
MaxTicks == 1

RInit ==
    /\ COff
    /\ SOff
    /\ r_pc = "idle"
    /\ r_op \in {"resolve", "dereference"}
    /\ r_did \in DidUrls
    /\ clock = 10
    /\ r_request = NoRequest
    /\ r_ret = Err("unset", "")
    /\ r_panic = FALSE
    /\ cb_calls = 0
    /\ cb_arg = Err("unset", "")
    /\ r_now = 0
    /\ d_pc = "idle"
    /\ d_now = 0
    /\ d_requests = <<>>
    /\ d_ret = Err("unset", "")
    /\ d_panic = FALSE
    /\ pool_primary = NoResult
    /\ pool_attrib = NoResult

\* time passes
Tick ==
    /\ r_pc = "idle"
    /\ clock < 10 + MaxTicks
    /\ clock' = clock + 1
    /\ UNCHANGED <<r_pc, r_op, r_did, r_request, r_ret, r_panic, cb_calls, cb_arg,
                   r_now>>
    /\ UNCHANGED <<cvars, dvars, pvars, svars>>

\* the answers of the pool to the primary request: one DID URL, one answer
PrimaryResults == IF pool_primary = NoResult THEN PoolResults ELSE {pool_primary}

\* PoolRunnerResolver::resolve / ::dereference up to the return of _resolve
RunnerCall ==
    /\ r_pc = "idle"
    /\ \E send_ok \in BOOLEAN :
        LET request == build_request(r_did, clock)
            sent == PoolCall(send_ok)
        IN IF ~r_did.parse_ok
           THEN /\ r_ret' = Err("Resolver", "Invalid DID URL")
                /\ r_pc' = "done"
                /\ r_request' = r_request
           ELSE IF ~request.ok
           THEN /\ r_ret' = request
                /\ r_pc' = "done"
                /\ r_request' = r_request
           ELSE /\ r_request' = request.val
                /\ r_ret' = sent
                /\ r_pc' = IF sent.ok THEN "sent" ELSE "done"
    /\ r_now' = clock
    /\ UNCHANGED <<r_op, r_did, clock, r_panic, cb_calls, cb_arg>>
    /\ UNCHANGED <<cvars, dvars, pvars, svars>>

\* the pool runner completes the request and runs the closure
RunnerComplete ==
    /\ r_pc = "sent"
    /\ \E result \in PrimaryResults :
        LET inner == RunnerClosure(r_did, r_request.txn_type, result)
            outer == IF inner.act = "call" THEN RunnerWrapper(r_op, inner.arg) ELSE inner
        IN /\ r_panic' = (outer.act = "panic")
           /\ IF outer.act = "call"
              THEN cb_calls' = cb_calls + 1 /\ cb_arg' = outer.arg
              ELSE UNCHANGED <<cb_calls, cb_arg>>
           /\ pool_primary' = result
    /\ r_pc' = "done"
    /\ UNCHANGED <<r_op, r_did, clock, r_request, r_ret, r_now, pool_attrib>>
    /\ UNCHANGED <<cvars, dvars, svars>>

\* PoolResolver::resolve / ::dereference up to the first wait for the pool
DirectCall ==
    /\ d_pc = "idle"
    /\ LET request == build_request(r_did, clock)
       IN IF ~r_did.parse_ok
          THEN /\ d_ret' = Err("Resolver", "Invalid DID URL")
               /\ d_pc' = "done"
               /\ d_requests' = d_requests
          ELSE IF ~request.ok
          THEN /\ d_ret' = request
               /\ d_pc' = "done"
               /\ d_requests' = d_requests
          ELSE /\ d_requests' = <<request.val>>
               /\ d_ret' = d_ret
               /\ d_pc' = "sent"
    /\ d_now' = clock
    /\ UNCHANGED d_panic
    /\ UNCHANGED <<cvars, rvars, pvars, svars>>

\* the pool answers the primary request and _resolve goes on: to its return,
\* or to the GET_ATTRIB request of fetch_legacy_endpoint
DirectReply ==
    /\ d_pc = "sent"
    /\ \E result \in PrimaryResults :
        LET step == DirectAfterPrimary(r_did, d_requests[1].txn_type, result)
        IN /\ pool_primary' = result
           /\ IF step.act = "fetch"
              THEN /\ d_requests' = Append(d_requests, AttribRequest(r_did.id))
                   /\ d_pc' = "legacy"
                   /\ UNCHANGED <<d_ret, d_panic>>
              ELSE /\ d_pc' = "done"
                   /\ d_panic' = (step.act = "panic")
                   /\ d_ret' = IF step.act = "return"
                               THEN DirectWrapper(r_op, step.arg) ELSE d_ret
                   /\ UNCHANGED d_requests
    /\ UNCHANGED <<d_now, pool_attrib>>
    /\ UNCHANGED <<cvars, rvars, svars>>

\* the pool answers the GET_ATTRIB request and _resolve runs to its return
DirectLegacyReply ==
    /\ d_pc = "legacy"
    /\ \E result \in AttribResults :
        LET fetched == fetch_legacy_endpoint(result)
        IN /\ pool_attrib' = result
           /\ d_panic' = (fetched.act = "panic")
           /\ d_ret' = IF fetched.act = "panic" THEN d_ret
                       ELSE DirectWrapper(r_op,
                                DirectResult(r_did, "GET_NYM", pool_primary.data,
                                             ok(fetched.arg)))
    /\ d_pc' = "done"
    /\ UNCHANGED <<d_now, d_requests, pool_primary>>
    /\ UNCHANGED <<cvars, rvars, svars>>

RNext ==
    \/ Tick
    \/ RunnerCall
    \/ RunnerComplete
    \/ DirectCall
    \/ DirectReply
    \/ DirectLegacyReply

ResolverSpec == RInit /\ [][RNext]_vars

(***************************************************************************)
(* Resolver: mapping a SCHEMA DID URL                                      *)
(***************************************************************************)
\* a DID URL did:indy:idunion:Dk1f/anoncreds/v0/SCHEMA/<segment>/1.0 whose
\* segment is the percent-encoding of a schema name
SInit ==
    /\ COff
    /\ ROff
    /\ s_pc = "url"
    /\ s_name \in Names
    /\ s_segment = encode(s_name)
    /\ s_schema = NoSchema
    /\ s_request = NoSchemaRequest

\* DidUrl::from_str and LedgerObject::from_str of its path
ParseSchemaPath ==
    /\ s_pc = "url"
    /\ s_schema' = LedgerObjectSchema(s_segment, "1.0")
    /\ s_pc' = "parsed"
    /\ UNCHANGED <<s_name, s_segment, s_request>>
    /\ UNCHANGED <<cvars, rvars, dvars, pvars>>

\* build_request on the parsed DID URL
BuildSchemaRequest ==
    /\ s_pc = "parsed"
    /\ s_request' = SchemaRequest("Dk1f", s_schema)
    /\ s_pc' = "built"
    /\ UNCHANGED <<s_name, s_segment, s_schema>>
    /\ UNCHANGED <<cvars, rvars, dvars, pvars>>

SNext ==
    \/ ParseSchemaPath
    \/ BuildSchemaRequest

SchemaSpec == SInit /\ [][SNext]_vars

(***************************************************************************)
(* Properties of the catchup session                                       *)
(***************************************************************************)
\* the consistency check of reply e against `tree` extended by its transactions
Verifies(tree, e) ==
    /\ e.msg = "CatchupRep"
    /\ e.fault = "none"
    /\ check_cons_proofs(tree \o e.txns, e.consProof, target_mt_root,
                         target_mt_size, TRUE).ok

\* a step that consumes a CatchupRep which loads and does not verify
RejectStep ==
    /\ pc = "awaiting"
    /\ consumed' = consumed + 1
    /\ event'.msg = "CatchupRep"
    /\ event'.fault # "load"
    /\ ~Verifies(merkle_tree, event')

\* a step that consumes a Timeout
TimeoutStep ==
    /\ pc = "awaiting"
    /\ consumed' = consumed + 1
    /\ event'.type = "Timeout"

\* a step that consumes a message that is no CatchupRep
UnexpectedStep ==
    /\ pc = "awaiting"
    /\ consumed' = consumed + 1
    /\ event'.type = "Received"
    /\ event'.msg # "CatchupRep"

\* the error of a failed send_to_any or clean_timeout, propagated
PoolErrOutcome == ErrOutcome(PoolCall(FALSE))

\* C1: a session that ends in Reply(txns) returns exactly N - n transactions,
\* and the caller's tree extended by them passes the consistency check against
\* target_root at size N.
C1_ReplyCoversRange ==
    outcome.tag = "Reply" =>
        /\ Len(outcome.txns) = target_mt_size - count(merkle_tree)
        /\ check_cons_proofs(merkle_tree \o outcome.txns, event.consProof,
                             target_mt_root, target_mt_size, TRUE).ok

\* C2 as stated: a CatchupRep that does not verify never ends the session,
\* leaves the caller's tree alone, clears that peer's timeout and is followed
\* by exactly one new send_to_any.
C2_RejectAlwaysRetries ==
    [][RejectStep =>
        /\ pc' = "awaiting"
        /\ outcome' = NoOutcome
        /\ merkle_tree' = merkle_tree
        /\ event'.node \in cleaned'
        /\ sends' = sends + 1]_vars

\* C2 amended: a CatchupRep that does not verify leaves the caller's tree
\* alone, returns no RequestResult and has clean_timeout called for that peer;
\* when clean_timeout and the following send_to_any(1, ack_timeout) succeed,
\* exactly one new send is issued and the session stays in awaiting; when one
\* of them returns an error the session ends with that error.
C2_RejectRetriesUnlessPoolError ==
    [][RejectStep =>
        /\ merkle_tree' = merkle_tree
        /\ root_hash(merkle_tree') = root_hash(merkle_tree)
        /\ event'.node \in cleaned'
        /\ \/ /\ pc' = "awaiting"
              /\ outcome' = NoOutcome
              /\ sends' = sends + 1
              /\ <<1, ack_timeout>> \in send_args'
           \/ /\ pc' = "done"
              /\ outcome' = PoolErrOutcome
              /\ sends' \in {sends, sends + 1}]_vars

C2_Witness ==
    /\ pc = "awaiting"
    /\ event.msg = "CatchupRep"
    /\ event.fault = "none"
    /\ ~Verifies(merkle_tree, event)
    /\ event.node \in cleaned
    /\ sends = 2

\* C4 as stated: a Timeout never ends the session: one new send_to_any is
\* issued and the session stays in awaiting.
C4_TimeoutNeverEnds ==
    [][TimeoutStep => (sends' = sends + 1 /\ pc' = "awaiting")]_vars

\* C4 amended: on every Timeout one new send_to_any(1, ack_timeout) is issued;
\* when it succeeds the session stays in awaiting without a result, for any
\* number of timeouts in a row; only an error of that send ends the session,
\* with that error and never with a RequestResult.
C4_TimeoutRetriesUnlessSendError ==
    [][TimeoutStep =>
        /\ sends' = sends + 1
        /\ <<1, ack_timeout>> \in send_args'
        /\ \/ pc' = "awaiting" /\ outcome' = NoOutcome
           \/ pc' = "done" /\ outcome' = PoolErrOutcome]_vars

C4_Witness ==
    /\ pc = "awaiting"
    /\ event.type = "Timeout"
    /\ timeouts >= 2
    /\ sends = timeouts + 1

\* C5: when the event stream ends, the session ends with
\* Failed(PoolTimeout, "Request timeout") and no transactions.
C5_StreamEndIsPoolTimeout ==
    event.type = "End" =>
        /\ pc = "done"
        /\ outcome = FailedOutcome("PoolTimeout", "Request timeout")
        /\ outcome.txns = <<>>

C5_Witness ==
    /\ event.type = "End"
    /\ pc = "done"
    /\ rejected >= 1
    /\ timeouts >= 1

\* C6: a received message that is no CatchupRep (a NACK included) ends the
\* session at once with Failed(InvalidState, "Unexpected response"); no
\* further send is issued and no later event is consumed.
C6_UnexpectedEndsSession ==
    /\ [][UnexpectedStep =>
            /\ pc' = "done"
            /\ outcome' = FailedOutcome("InvalidState", "Unexpected response")
            /\ sends' = sends
            /\ send_args' = send_args
            /\ cleaned' = cleaned]_vars
    /\ [][(event.type = "Received" /\ event.msg # "CatchupRep") =>
            (consumed' = consumed /\ sends' = sends)]_vars

C6_Witness ==
    /\ pc = "done"
    /\ event.msg = "ReqNACK"
    /\ outcome = FailedOutcome("InvalidState", "Unexpected response")
    /\ sends = 2

\* C7 as stated: in every terminal state the last consumed event is the end
\* of the stream or a CatchupRep that passed the consistency check.
C7_EndsOnlyOnEndOrVerified ==
    pc = "done" => (event.type = "End" \/ Verifies(merkle_tree, event))

\* C7 amended: the session ends only when the stream is exhausted, a reply
\* verifies, a message that is no CatchupRep is received, the transactions of
\* a CatchupRep fail to load, or a send_to_any / clean_timeout call returns an
\* error.
C7_TerminalCauses ==
    pc = "done" =>
        \/ event.type = "End" /\ outcome = FailedOutcome("PoolTimeout", "Request timeout")
        \/ Verifies(merkle_tree, event) /\ outcome = ReplyOutcome(event.txns)
        \/ /\ event.type = "Received"
           /\ event.msg # "CatchupRep"
           /\ outcome = FailedOutcome("InvalidState", "Unexpected response")
        \/ /\ event.msg = "CatchupRep"
           /\ event.fault = "load"
           /\ outcome = ErrOutcome(load_txns(event))
        \/ /\ outcome = PoolErrOutcome
           /\ \/ event.type \in {"none", "Timeout"}
              \/ event.msg = "CatchupRep" /\ event.fault # "load"
                    /\ ~Verifies(merkle_tree, event)

C7_Witness ==
    /\ pc = "done"
    /\ event.type = "Received"
    /\ event.msg = "LedgerStatus"
    /\ outcome.tag = "Failed"
    /\ timeouts >= 1

\* C8: a CatchupRep whose transactions fail to load is rejected like one that
\* does not verify: the session goes on and no error is returned to the caller.
C8_LoadFailureRetries ==
    (event.msg = "CatchupRep" /\ event.fault = "load") =>
        (pc = "awaiting" /\ outcome = NoOutcome)

\* C9: after any sequence of Timeouts and rejected CatchupReps, a CatchupRep
\* that verifies ends the session with Reply holding exactly its transactions,
\* in their order, and nothing of the earlier failures.
C9_VerifiedReplyReturned ==
    Verifies(merkle_tree, event) =>
        (pc = "done" /\ outcome = ReplyOutcome(event.txns))

C9_Witness ==
    /\ Verifies(merkle_tree, event)
    /\ outcome = ReplyOutcome(event.txns)
    /\ Len(outcome.txns) >= 2
    /\ timeouts >= 1
    /\ rejected >= 1

\* C10: build_catchup_req fails with InvalidState "No transactions to catch
\* up" exactly when count >= N; otherwise it returns ledgerId 0, seqNoStart =
\* count + 1, seqNoEnd = catchupTill = N, with seqNoStart <= seqNoEnd.
C10_BuildCatchupReq ==
    pc \in {"start", "nocatchup"} =>
        LET n == count(merkle_tree)
            N == target_mt_size
        IN /\ ~catchup_req.ok <=> n >= N
           /\ ~catchup_req.ok =>
                /\ catchup_req.kind = "InvalidState"
                /\ catchup_req.msg = "No transactions to catch up"
           /\ catchup_req.ok =>
                /\ catchup_req.val = [ledgerId |-> 0, seqNoStart |-> n + 1,
                                      seqNoEnd |-> N, catchupTill |-> N]
                /\ catchup_req.val.seqNoStart <= catchup_req.val.seqNoEnd

C10_Witness ==
    /\ pc = "nocatchup"
    /\ count(merkle_tree) = target_mt_size
    /\ ~catchup_req.ok

(***************************************************************************)
(* Properties of the resolver                                              *)
(***************************************************************************)
\* C3: in runner mode every call of resolve or dereference, on every terminal
\* path, calls the caller's completion callback exactly once.
C3_CallbackExactlyOnce ==
    r_pc = "done" => cb_calls = 1

\* what the caller of the runner-mode call got: the argument of its callback,
\* else the error the call returned, else nothing
RunnerDelivered ==
    IF cb_calls > 0 THEN Some(cb_arg)
    ELSE IF ~r_ret.ok THEN Some(r_ret)
    ELSE None

\* what the caller of the direct-mode call got: what the call returned, or
\* nothing when it panicked
DirectDelivered == IF d_panic THEN None ELSE Some(d_ret)

\* the requests the runner-mode call handed to the pool
RunnerRequests == IF r_request = NoRequest THEN <<>> ELSE <<r_request>>

\* both calls are over, were made at the same clock reading, and the pool
\* answered whatever it was asked
BothAnswered ==
    /\ r_pc = "done"
    /\ d_pc = "done"
    /\ r_now = d_now
    /\ r_ret.ok \/ r_request = NoRequest

\* C11: for the same DID URL and the same pool responses, direct mode and
\* runner mode hand the same requests to the pool and deliver the same
\* outcome (the same envelope or the same error) to the caller.
C11_ModesEquivalent ==
    BothAnswered =>
        /\ RunnerRequests = d_requests
        /\ RunnerDelivered = DirectDelivered

\* the direct-mode resolve is over, its GET_NYM request was answered with a
\* valid NYM without diddoc_content, and the pool answered the GET_ATTRIB
\* request that followed
LegacyFetched ==
    /\ d_pc = "done"
    /\ r_op = "resolve"
    /\ Len(d_requests) = 2
    /\ pool_primary.data = "nym_legacy"
    /\ pool_attrib # NoResult

\* the follow-up delivered an endpoint
AttribSucceeded == pool_attrib.tag = "Reply" /\ pool_attrib.data = "endpoint"

\* C12: in direct mode, when the GET_NYM reply is valid and lacks
\* diddoc_content, resolve returns a successful ResolutionResult whatever
\* becomes of the GET_ATTRIB follow-up: its DID document has no endpoint when
\* the follow-up fails for any reason, and the parsed endpoint when it succeeds.
C12_LegacyFailureSwallowed ==
    LegacyFetched =>
        /\ ~d_panic
        /\ d_ret = Ok(ResolutionResult(
                        Some(to_value(DidDocument(r_did.namespace,
                            IF AttribSucceeded THEN Some("endpoint") ELSE None))),
                        ContentMetadata(pool_primary.data, "NYM")))

\* the pool has answered the primary request of the direct-mode call, and the
\* call is over
DirectAnswered == d_pc = "done" /\ Len(d_requests) >= 1

\* the pool has answered the request of the runner-mode call and the
\* completion closure has run
RunnerAnswered == r_pc = "done" /\ r_ret.ok

\* C13: when the reply to the primary request has result.data null, resolve
\* and dereference deliver the error Resolver "Empty data in ledger response"
\* to the caller, in either mode, and no envelope.
C13_NullDataIsError ==
    (pool_primary.tag = "Reply" /\ pool_primary.data = "null") =>
        /\ DirectAnswered =>
             DirectDelivered = Some(Err("Resolver", "Empty data in ledger response"))
        /\ RunnerAnswered =>
             RunnerDelivered = Some(Err("Resolver", "Empty data in ledger response"))

\* C14: when the pool reports a failure of the primary request (Err, or
\* RequestResult::Failed(e)), the caller gets exactly that error, in either
\* mode; there is no envelope and no GET_ATTRIB request.
C14_PoolFailureVerbatim ==
    pool_primary.tag \in {"Err", "Failed"} =>
        /\ DirectAnswered =>
             /\ DirectDelivered = Some(Err(pool_primary.err, "pool"))
             /\ Len(d_requests) = 1
        /\ RunnerAnswered =>
             /\ RunnerDelivered = Some(Err(pool_primary.err, "pool"))
             /\ cb_calls = 1

\* the direct-mode call has run build_request on a well-formed DID URL
DirectMapped == d_pc # "idle" /\ r_did.parse_ok

\* build_request returned a request
DirectBuilt == DirectMapped /\ Len(d_requests) >= 1

\* C15: for a revocation-registry DID URL build_request picks the transaction
\* type from the path kind and the query keys: RevRegEntry without from and to
\* gives GET_REVOC_REG, with timestamp the unix seconds of versionTime when
\* supplied; RevRegEntry with from or to gives GET_REVOC_REG_DELTA with from and
\* to the unix seconds of the supplied values; RevRegDelta gives
\* GET_REVOC_REG_DELTA, without a from field when no from was supplied.
C15_RevRegTxnType ==
    (DirectMapped /\ r_did.path \in {"RevRegEntry", "RevRegDelta"}) =>
        LET req == d_requests[1]
            keyed == r_did.from.st # "absent" \/ r_did.to.st # "absent"
        IN /\ (r_did.path = "RevRegEntry" /\ ~keyed) =>
                /\ DirectBuilt =>
                     /\ req.txn_type = "GET_REVOC_REG"
                     /\ req.from = None /\ req.to = None
                /\ r_did.versionTime.st = "ok" =>
                     DirectBuilt /\ req.timestamp = Some(r_did.versionTime.t)
           /\ (r_did.path = "RevRegDelta" \/ keyed) =>
                /\ DirectBuilt =>
                     /\ req.txn_type = "GET_REVOC_REG_DELTA"
                     /\ req.timestamp = None
                     /\ r_did.from.st = "ok" => req.from = Some(r_did.from.t)
                     /\ r_did.from.st = "absent" => req.from = None
                /\ r_did.to.st = "ok" =>
                     DirectBuilt /\ req.to = Some(r_did.to.t)

C15_Witness ==
    /\ DirectBuilt
    /\ r_did.path = "RevRegEntry"
    /\ r_did.from.st = "absent"
    /\ r_did.to = Parsed(7)
    /\ d_requests[1].txn_type = "GET_REVOC_REG_DELTA"
    /\ d_requests[1].to = Some(7)

\* the datetime query values build_request reads on the path of did
DatetimesRead(did) ==
    IF did.path = "none" THEN {did.versionTime}
    ELSE IF did.path = "RevRegDelta" THEN {did.from, did.to}
    ELSE IF did.path = "RevRegEntry"
    THEN IF did.from.st # "absent" \/ did.to.st # "absent"
         THEN {did.from, did.to}
         ELSE {did.versionTime}
    ELSE {}

\* C16: build_request fails with the ResolverError "Could not parse datetime"
\* whenever a datetime query value it reads (versionTime, from, to; versionTime
\* of a path-less URL included) is supplied and is not RFC 3339, and no request
\* is produced.
C16_BadDatetimeFails ==
    (DirectMapped /\ Bad \in DatetimesRead(r_did)) =>
        /\ d_pc = "done"
        /\ d_requests = <<>>
        /\ d_ret = Err("Resolver", "Could not parse datetime")

\* the request a call step hands to the pool defaults its `to`, respectively
\* its `timestamp`, and that field is at least the clock read before the call
DefaultsToNow(req) ==
    /\ (req.txn_type = "GET_REVOC_REG_DELTA" /\ r_did.to.st = "absent") =>
          req.to # None /\ req.to[1] >= clock
    /\ (req.txn_type = "GET_REVOC_REG" /\ r_did.versionTime.st = "absent") =>
          req.timestamp # None /\ req.timestamp[1] >= clock

\* C17: for a RevRegEntry or RevRegDelta DID URL without `to` (a RevRegEntry
\* URL without versionTime, from and to) the `to` (the `timestamp`) of the
\* request build_request produces is the wall clock read during construction,
\* which is at least any reading taken immediately before the call.
C17_DefaultToIsNow ==
    [][/\ (d_pc = "idle" /\ d_pc' = "sent") => DefaultsToNow(d_requests'[1])
       /\ (r_pc = "idle" /\ r_request' # NoRequest) => DefaultsToNow(r_request')]_vars

C17_Witness ==
    /\ DirectBuilt
    /\ r_did.path = "RevRegEntry"
    /\ r_did.from = Parsed(7)
    /\ r_did.to = Absent
    /\ d_now = 11
    /\ d_requests[1].to = Some(11)

\* the DID URL leaves the field build_request fills from the clock unset
UsesNow(did) ==
    \/ did.path = "RevRegDelta" /\ did.to.st = "absent"
    \/ /\ did.path = "RevRegEntry"
       /\ did.to.st = "absent"
       /\ did.from.st = "absent" => did.versionTime.st = "absent"

\* both modes have run build_request on the same well-formed DID URL
BothMapped == r_did.parse_ok /\ d_pc # "idle" /\ r_pc # "idle"

\* C18 as stated: two calls of build_request with equal inputs, made at any two
\* points in time, produce equal PreparedRequests, for every DID URL shape.
C18_BuildRequestPure ==
    BothMapped =>
        /\ DirectBuilt <=> r_request # NoRequest
        /\ DirectBuilt => d_requests[1] = r_request

\* C18: build_request is a function of the DID URL and of the clock it reads:
\* two calls with equal inputs succeed or fail alike, and produce equal
\* requests when the URL supplies the field (`to`, or versionTime of a
\* RevRegEntry without from and to) or when both calls read the same clock;
\* otherwise the requests differ in that field alone, which holds each call's
\* clock reading.
C18_PureUpToClock ==
    BothMapped =>
        /\ DirectBuilt <=> r_request # NoRequest
        /\ (DirectBuilt /\ (~UsesNow(r_did) \/ d_now = r_now)) =>
              d_requests[1] = r_request
        /\ (DirectBuilt /\ UsesNow(r_did)) =>
              IF r_request.txn_type = "GET_REVOC_REG"
              THEN /\ d_requests[1] = [r_request EXCEPT !.timestamp = Some(d_now)]
                   /\ r_request.timestamp = Some(r_now)
              ELSE /\ d_requests[1] = [r_request EXCEPT !.to = Some(d_now)]
                   /\ r_request.to = Some(r_now)

C18_Witness ==
    /\ BothMapped
    /\ DirectBuilt
    /\ UsesNow(r_did)
    /\ d_now # r_now
    /\ d_requests[1] # r_request
    /\ d_requests[1].txn_type = "GET_REVOC_REG"

\* the label the result metadata is to carry for a txn_type
ObjectTypeLabel(txn_type) ==
    IF txn_type = "GET_NYM" THEN "NYM"
    ELSE IF txn_type = "GET_SCHEMA" THEN "SCHEMA"
    ELSE IF txn_type = "GET_CRED_DEF" THEN "CRED_DEF"
    ELSE IF txn_type = "GET_REVOC_REG_DEF" THEN "REVOC_REG_DEF"
    ELSE IF txn_type = "GET_REVOC_REG_DELTA" THEN "REVOC_REG_DELTA"
    ELSE "UNKNOWN"

\* the envelope `delivered` carries label as objectType, and for a request
\* other than GET_NYM the ledger data as content (dereference) and no DID
\* document (resolve)
Labelled(delivered, txn_type) ==
    /\ delivered.ok
    /\ delivered.val.metadata[1].object_type = ObjectTypeLabel(txn_type)
    /\ txn_type # "GET_NYM" =>
          delivered.val.body = IF r_op = "dereference"
                               THEN Some(pool_primary.data) ELSE None

\* C19: the objectType of the result metadata follows the txn_type of the
\* request: NYM, SCHEMA, CRED_DEF, REVOC_REG_DEF, REVOC_REG_DELTA for the five
\* named types and "UNKNOWN" for every other; for every type but GET_NYM the
\* ledger data is wrapped as content, not as a DID document.
C19_ObjectTypeLabel ==
    /\ (DirectAnswered /\ ~d_panic /\ d_ret.ok) =>
          Labelled(d_ret, d_requests[1].txn_type)
    /\ (RunnerAnswered /\ cb_calls = 1) =>
          Labelled(cb_arg, r_request.txn_type)

(***************************************************************************)
(* Properties of the catchup session: errors of the Merkle layer           *)
(***************************************************************************)
\* C20: a CryptoError raised by the Merkle layer while a CatchupRep is
\* processed (hashing fails in append, or the proof computation fails in the
\* consistency check) ends the session with that error returned to its caller;
\* the session does not go on to another peer.
C20_CryptoErrorPropagated ==
    (event.msg = "CatchupRep" /\ event.fault \in {"hash", "proof"}) =>
        /\ pc = "done"
        /\ outcome = ErrOutcome(Err("CryptoError", event.fault))

(***************************************************************************)
(* Properties of the request mapping                                       *)
(***************************************************************************)
\* C21: the GET_SCHEMA request built from a DID URL whose SCHEMA path segment
\* is the percent-encoding of a schema name s carries operation.data.name = s,
\* for every s, names with spaces and reserved characters included.
C21_SchemaNameRoundTrip ==
    s_pc = "built" =>
        /\ s_request.txn_type = "GET_SCHEMA"
        /\ s_request.data.name = s_name

C21_Witness ==
    /\ s_pc = "built"
    /\ s_name = <<"a", " ", "%">>
    /\ s_segment = <<"a", "%", "2", "0", "%", "2", "5">>
    /\ s_request.data.name = s_name

(***************************************************************************)
(* Properties of the catchup session: attempts                             *)
(***************************************************************************)
\* every send asks one peer and carries the ack_timeout of the pool
UniformSends == send_args \subseteq {<<1, ack_timeout>>}

\* a step issues at most one send, and issues it only when the session starts
\* or in answer to a Timeout or to a rejected CatchupRep
SendsInResponse ==
    /\ sends' <= sends + 1
    /\ sends' = sends + 1 => (pc = "start" \/ TimeoutStep \/ RejectStep)

\* C22 as stated: the first send precedes every event, later sends answer a
\* Timeout or a rejected CatchupRep, so that at every point of the session
\* sends = 1 + timeouts + rejected; every send asks one peer and carries the
\* same ack_timeout.
C22_SendsCount ==
    /\ [](consumed > 0 => sends >= 1)
    /\ [](pc \in {"awaiting", "done"} => sends = 1 + timeouts + rejected)
    /\ []UniformSends
    /\ [][SendsInResponse]_vars

\* C22: as above, but a rejected CatchupRep whose clean_timeout call fails
\* ends the session before the send: then, and only then, sends = timeouts +
\* rejected.
C22_SendsCountUnlessCleanFails ==
    /\ [](consumed > 0 => sends >= 1)
    /\ [](pc = "awaiting" => sends = 1 + timeouts + rejected)
    /\ [](pc = "done" =>
            \/ sends = 1 + timeouts + rejected
            \/ /\ sends = timeouts + rejected
               /\ outcome = PoolErrOutcome
               /\ event.msg = "CatchupRep"
               /\ event.fault # "load"
               /\ ~Verifies(merkle_tree, event))
    /\ []UniformSends
    /\ [][SendsInResponse]_vars

C22_Witness ==
    /\ pc = "done"
    /\ timeouts >= 1
    /\ rejected >= 1
    /\ sends = timeouts + rejected
    /\ outcome = PoolErrOutcome

\* a step that consumes a CatchupRep whose transactions load
ReplyStep ==
    /\ pc = "awaiting"
    /\ consumed' = consumed + 1
    /\ event'.msg = "CatchupRep"
    /\ event'.fault # "load"

\* C23: nothing of a rejected reply is carried into a later attempt: the
\* caller's tree is never changed, every CatchupRep is accepted exactly when
\* the caller's original tree extended by its own transactions passes the
\* check, whatever was rejected before, and an accepted reply is returned
\* with its own transactions only.
C23_NoStateCarriedOver ==
    [][/\ merkle_tree' = merkle_tree
       /\ ReplyStep =>
            /\ outcome'.tag = "Reply" <=> Verifies(merkle_tree, event')
            /\ outcome'.tag = "Reply" => outcome'.txns = event'.txns]_vars

C23_Witness ==
    /\ outcome.tag = "Reply"
    /\ outcome.txns = event.txns
    /\ rejected >= 2
    /\ timeouts = 0
    /\ count(merkle_tree) >= 1

(***************************************************************************)
(* Properties of the resolver: requests of a direct-mode call              *)
(***************************************************************************)
\* the pool has answered the primary request of the direct-mode call
DirectPrimaryAnswered == d_pc \in {"legacy", "done"} /\ Len(d_requests) >= 1

\* the primary request was GET_NYM and its reply decoded to a NYM without
\* diddoc_content
LegacyNym ==
    /\ d_requests[1].txn_type = "GET_NYM"
    /\ pool_primary.tag = "Reply"
    /\ pool_primary.data = "nym_legacy"

\* C24: a direct-mode call issues at most two pool requests; the second,
\* GET_ATTRIB for the same DID, is issued exactly when the primary request was
\* GET_NYM, its reply was decoded and the NYM has no diddoc_content; with
\* diddoc_content there is no second request and the DID document is built
\* with endpoint None.
C24_AtMostTwoRequests ==
    /\ Len(d_requests) <= 2
    /\ Len(d_requests) = 2 <=> (DirectPrimaryAnswered /\ LegacyNym)
    /\ Len(d_requests) = 2 => d_requests[2] = AttribRequest(d_requests[1].id)
    /\ (/\ d_pc = "done"
        /\ Len(d_requests) >= 1
        /\ d_requests[1].txn_type = "GET_NYM"
        /\ pool_primary.data = "nym_inline"
        /\ r_op = "resolve") =>
          d_ret = Ok(ResolutionResult(
                       Some(to_value(DidDocument(r_did.namespace, None))),
                       ContentMetadata(pool_primary.data, "NYM")))

C24_Witness ==
    /\ d_pc = "done"
    /\ Len(d_requests) = 2
    /\ d_requests[2].txn_type = "GET_ATTRIB"
    /\ pool_attrib.data = "endpoint"
    /\ d_ret.ok

(***************************************************************************)
(* Properties of the catchup session: termination                          *)
(***************************************************************************)
\* one iteration of the loop of handle_catchup_request: it consumes one event,
\* and either ends the session or issues one new send; it goes on only after
\* a Timeout or a rejected CatchupRep
LoopIteration ==
    pc = "awaiting" =>
        /\ consumed' = consumed + 1
        /\ sends' <= sends + 1
        /\ pc' = "done" \/ (pc' = "awaiting" /\ sends' = sends + 1)
        /\ pc' = "awaiting" => (TimeoutStep \/ RejectStep)

\* C25: every iteration of the loop consumes exactly one event and either
\* terminates or issues exactly one new send, going on only after a Timeout or
\* a rejected CatchupRep; a session whose stream of events comes to an end, or
\* delivers a verifying CatchupRep or another message, reaches a terminal
\* outcome.
C25_SessionTerminates ==
    /\ [][LoopIteration]_vars
    /\ <>(pc \in {"done", "nocatchup"})

C25_Witness ==
    /\ pc = "done"
    /\ consumed = MaxSends
    /\ sends = MaxSends
    /\ event = EndEvent
    /\ outcome = FailedOutcome("PoolTimeout", "Request timeout")

(***************************************************************************)
(* Properties of the resolver: the timestamp of a GET_NYM request          *)
(***************************************************************************)
\* C26: for a DID URL without a path whose versionTime parses to t unix
\* seconds, the timestamp of the GET_NYM request is the number t itself (no
\* multiple of 2^64 added to it), for t before 1970-01-01 as well.
C26_VersionTimePreserved ==
    (DirectBuilt /\ r_did.path = "none" /\ r_did.versionTime.st = "ok") =>
        /\ d_requests[1].txn_type = "GET_NYM"
        /\ d_requests[1].timestamp = Some(<<0, r_did.versionTime.t>>)

====
